---- MODULE Spec2Model ----
(***************************************************************************)
(* FluidSimulator (src/src/scenes/FluidSimulator2/fluidSimulator.ts): an   *)
(* SPH solver stepping particles through density, force and integration    *)
(* passes over a spatial hash grid.                                        *)
(*                                                                         *)
(* Numbers.  The program computes in IEEE-754 binary floating point.  The  *)
(* model keeps that arithmetic with a narrower significand: a number is a  *)
(* pair <<m, e>> standing for m * 2^e, with m = 0 (and e = 0) or           *)
(* 2^(MantissaBits-1) <= |m| < 2^MantissaBits.  Every operation computes   *)
(* the exact result and rounds it towards zero to MantissaBits bits, so    *)
(* rounding, cancellation and non-associativity are present as in the      *)
(* program.  The exponent is unbounded: overflow to Infinity and NaN are   *)
(* outside the model.  The program keeps the particle fields in doubles   *)
(* and the position buffer in a Float32Array; the model rounds both to the *)
(* same MantissaBits.                                                      *)
(***************************************************************************)
EXTENDS Integers, Sequences, FiniteSets, TLC

\* ------------------------------------------------------------------ bounds
MantissaBits == 12
MaxParticles == 3
MaxTicks == 2
MaxMutations == 1

\* ------------------------------------------------------- number arithmetic
Abs(n) == IF n < 0 THEN -n ELSE n

Sgn(n) == IF n < 0 THEN -1 ELSE IF n > 0 THEN 1 ELSE 0

\* integer quotient rounded towards zero
TruncDiv(a, b) ==
    IF a >= 0
    THEN (IF b > 0 THEN a \div b ELSE -(a \div (-b)))
    ELSE (IF b > 0 THEN -((-a) \div b) ELSE (-a) \div (-b))

Zero == <<0, 0>>

\* number of bits of n, for 0 <= n < 2^31
Bits4(n) == IF n < 4 THEN (IF n < 2 THEN n ELSE 2) ELSE (IF n < 8 THEN 3 ELSE 4)

Bits8(n) == IF n < 16 THEN Bits4(n) ELSE 4 + Bits4(n \div 16)

Bits16(n) == IF n < 256 THEN Bits8(n) ELSE 8 + Bits8(n \div 256)

BitLen(n) == IF n < 65536 THEN Bits16(n) ELSE 16 + Bits16(n \div 65536)

\* m * 2^e rounded towards zero to MantissaBits bits
Norm(m, e) ==
    IF m = 0 THEN Zero
    ELSE LET k == BitLen(Abs(m)) - MantissaBits
         IN  IF k >= 0 THEN <<TruncDiv(m, 2^k), e + k>> ELSE <<m * 2^(-k), e + k>>

\* Norm(m, e) for a nonzero m known to have lo or lo + 1 bits, lo >= MantissaBits
NormNear(m, e, lo) ==
    LET k == IF Abs(m) < 2^lo THEN lo - MantissaBits ELSE lo + 1 - MantissaBits
    IN  <<TruncDiv(m, 2^k), e + k>>

FromInt(n) == Norm(n, 0)

FNeg(a) == <<-a[1], a[2]>>

FMul(a, b) ==
    IF a[1] = 0 \/ b[1] = 0 THEN Zero
    ELSE NormNear(a[1] * b[1], a[2] + b[2], 2 * MantissaBits - 1)

FDiv(a, b) ==
    IF a[1] = 0 THEN Zero
    ELSE NormNear(TruncDiv(a[1] * 2^MantissaBits, b[1]), a[2] - b[2] - MantissaBits,
                  MantissaBits)

\* a + b, for a of the larger exponent
AddAligned(a, b) ==
    IF a[2] - b[2] > MantissaBits + 2 THEN a
    ELSE Norm(a[1] * 2^(a[2] - b[2]) + b[1], b[2])

FAdd(a, b) ==
    IF a[1] = 0 THEN b
    ELSE IF b[1] = 0 THEN a
    ELSE IF a[2] >= b[2] THEN AddAligned(a, b)
    ELSE AddAligned(b, a)

FSub(a, b) == FAdd(a, FNeg(b))

FLt(a, b) == FSub(a, b)[1] < 0

FGt(a, b) == FLt(b, a)

FGe(a, b) == ~FLt(a, b)

FMax(a, b) == IF FLt(a, b) THEN b ELSE a

\* a decimal literal n/d of the source
Lit(n, d) == FDiv(FromInt(n), FromInt(d))

RECURSIVE FPow(_, _)
FPow(a, n) == IF n = 1 THEN a ELSE FMul(FPow(a, n - 1), a)

\* largest s in lo..hi with s*s <= n
RECURSIVE ISqrt(_, _, _)
ISqrt(n, lo, hi) ==
    IF lo >= hi THEN lo
    ELSE LET mid == (lo + hi + 1) \div 2
         IN  IF mid * mid <= n THEN ISqrt(n, mid, hi) ELSE ISqrt(n, lo, mid - 1)

\* square root of a >= 0
FSqrt(a) ==
    IF a[1] <= 0 THEN Zero
    ELSE LET k == IF (a[2] - MantissaBits) % 2 = 0 THEN MantissaBits ELSE MantissaBits + 1
             n == a[1] * 2^k
         IN  Norm(ISqrt(n, 2^(MantissaBits - 1), 2^(MantissaBits + 1)), (a[2] - k) \div 2)

\* floor of a as an integer
FFloor(a) ==
    IF a[2] >= 0 THEN a[1] * 2^a[2]
    ELSE IF -a[2] > 2 * MantissaBits THEN (IF a[1] < 0 THEN -1 ELSE 0)
    ELSE a[1] \div 2^(-a[2])

Math_PI == Lit(355, 113)

\* ------------------------------------------------------------------- state
VARIABLES
    particles,            \* _particles: index -> IFluidParticle record
    numMaxParticles,      \* _numMaxParticles
    positions,            \* _positions: flat buffer, particle i at 3i, 3i+1, 3i+2
    vbPositions,          \* _vbPositions: the data last handed to the vertex buffer
    hash,                 \* _hash
    smoothingRadius,      \* _smoothingRadius
    smoothingRadius2,     \* _smoothingRadius2
    poly6Constant,        \* _poly6Constant
    spikyConstant,        \* _spikyConstant
    viscConstant,         \* _viscConstant
    densityReference,
    pressureConstant,
    viscosity,
    gravity,              \* <<x, y, z>>
    checkXZBounds,
    currentNumParticles,
    pc,                   \* 0: no update running; k > 0: statement k of update is next
    deltaTime,            \* argument of the running update
    log,                  \* statements of update run so far in the current call
    ticks,                \* completed update calls
    mutations,            \* parameter assignments made so far
    dirty                 \* parameters assigned since the last call of update

vars == <<particles, numMaxParticles, positions, vbPositions, hash, smoothingRadius,
          smoothingRadius2, poly6Constant, spikyConstant, viscConstant,
          densityReference, pressureConstant, viscosity, gravity, checkXZBounds,
          currentNumParticles, pc, deltaTime, log, ticks, mutations, dirty>>

\* the simulator's fields as one record, read by the passes below
Sim ==
    [particles |-> particles, numMaxParticles |-> numMaxParticles,
     positions |-> positions, hash |-> hash,
     smoothingRadius |-> smoothingRadius, smoothingRadius2 |-> smoothingRadius2,
     poly6Constant |-> poly6Constant, spikyConstant |-> spikyConstant,
     viscConstant |-> viscConstant, densityReference |-> densityReference,
     pressureConstant |-> pressureConstant, viscosity |-> viscosity,
     gravity |-> gravity, checkXZBounds |-> checkXZBounds,
     currentNumParticles |-> currentNumParticles]

\* ------------------------------------------------------ spatial hash (Hash)
\* new Hash(spacing, maxNumObjects): an empty grid of cell size spacing
NewHash(spacing, maxNumObjects) ==
    [spacing |-> spacing, maxNumObjects |-> maxNumObjects, numObjects |-> 0,
     cells |-> <<>>]

\* integer cell coordinate of particle i: floor of each axis over the cell size
CellOf(pos, i, spacing) ==
    <<FFloor(FDiv(pos[3 * i + 0], spacing)),
      FFloor(FDiv(pos[3 * i + 1], spacing)),
      FFloor(FDiv(pos[3 * i + 2], spacing))>>

\* hash.create(positions, numObjects): clear and bin the first numObjects particles
HashCreate(h, pos, numObjects) ==
    [h EXCEPT !.numObjects = numObjects,
              !.cells = [i \in 0 .. numObjects - 1 |-> CellOf(pos, i, h.spacing)]]

InBlock(c, d) == \A k \in 1 .. 3 : Abs(c[k] - d[k]) <= 1

RECURSIVE QueryFrom(_, _, _)
QueryFrom(h, c, b) ==
    IF b >= h.numObjects THEN <<>>
    ELSE IF InBlock(h.cells[b], c) THEN <<b>> \o QueryFrom(h, c, b + 1)
    ELSE QueryFrom(h, c, b + 1)

\* hash.query(positions, a, maxDist): queryIds, the binned particles in the
\* 3x3x3 block of cells around a's cell (querySize is its length)
HashQuery(h, pos, a, maxDist) == QueryFrom(h, CellOf(pos, a, h.spacing), 0)

\* ------------------------------------------------------------- density pass
\* diffX, diffY, diffZ: the vector from particle b to particle a
Diff(pos, a, b) ==
    <<FSub(pos[3 * a + 0], pos[3 * b + 0]),
      FSub(pos[3 * a + 1], pos[3 * b + 1]),
      FSub(pos[3 * a + 2], pos[3 * b + 2])>>

\* diffX * diffX + diffY * diffY + diffZ * diffZ
LengthSquared(d) == FAdd(FAdd(FMul(d[1], d[1]), FMul(d[2], d[2])), FMul(d[3], d[3]))

Dist2(pos, a, b) == LengthSquared(Diff(pos, a, b))

Poly6(s, r2) == FMul(s.poly6Constant, FPow(FSub(s.smoothingRadius2, r2), 3))

\* faulty variant: the density loop skips the particle itself
DensityCountsNoSelf(s, a, b, r2) == a # b /\ FLt(r2, s.smoothingRadius2)

\* does candidate b, at squared distance r2, contribute to a's density
DensityCounts(s, a, b, r2) == FLt(r2, s.smoothingRadius2)

RECURSIVE DensityLoop(_, _, _, _)
DensityLoop(s, a, queryIds, density) ==
    IF queryIds = <<>> THEN density
    ELSE LET b == Head(queryIds)
             r2 == Dist2(s.positions, a, b)
         IN  DensityLoop(s, a, Tail(queryIds),
                 IF DensityCounts(s, a, b, r2) THEN FAdd(density, Poly6(s, r2))
                 ELSE density)

\* faulty variant: the density is stored without the clamp to the reference
ClampDensityOff(s, density) == density

ClampDensity(s, density) == FMax(s.densityReference, density)

DensityOf(s, a) ==
    ClampDensity(s, DensityLoop(s, a,
        HashQuery(s.hash, s.positions, a, s.smoothingRadius), Zero))

\* faulty variant: the reference density is not subtracted
PressureOfAbsolute(s, density) == FMul(s.pressureConstant, density)

PressureOf(s, density) == FMul(s.pressureConstant, FSub(density, s.densityReference))

\* _computeDensity: the particles after the pass
ComputeDensity(s) ==
    [a \in DOMAIN s.particles |->
        IF a < s.currentNumParticles
        THEN LET d == DensityOf(s, a)
             IN  [s.particles[a] EXCEPT !.density = d, !.pressure = PressureOf(s, d)]
        ELSE s.particles[a]]

\* --------------------------------------------------------------- force pass
ZeroAccel == [pX |-> Zero, pY |-> Zero, pZ |-> Zero, vX |-> Zero, vY |-> Zero, vZ |-> Zero]

\* does candidate b exert a force on a, at distance r with square r2
ForceCounts(s, r, r2) == FGt(r, Zero) /\ FLt(r2, s.smoothingRadius2)

\* faulty variant: the pressure term uses particle a's own pressure and density only
PressureScaleOwn(pA, pB) == FDiv(pA.pressure, FMul(pA.density, pA.density))

\* (pA.pressure + pB.pressure) / (2 * pA.density * pB.density)
PressureScale(pA, pB) ==
    FDiv(FAdd(pA.pressure, pB.pressure), FMul(FMul(FromInt(2), pA.density), pB.density))

\* fp: the pressure factor, for hr = smoothingRadius - r
PressureFactor(s, pA, pB, hr, massRatio) ==
    FMul(FMul(FMul(FMul(s.spikyConstant, hr), hr), PressureScale(pA, pB)), massRatio)

\* fv: the viscosity factor, for hr = smoothingRadius - r
ViscosityFactor(s, pB, hr, massRatio) ==
    FMul(FMul(FMul(FMul(s.viscConstant, hr), FDiv(FromInt(1), pB.density)), massRatio),
         s.viscosity)

\* the accumulators after b's contribution along the unit vector dir
Accumulate(acc, fp, fv, dir, pA, pB) ==
    [pX |-> FSub(acc.pX, FMul(fp, dir[1])),
     pY |-> FSub(acc.pY, FMul(fp, dir[2])),
     pZ |-> FSub(acc.pZ, FMul(fp, dir[3])),
     vX |-> FAdd(acc.vX, FMul(fv, FSub(pB.velocityX, pA.velocityX))),
     vY |-> FAdd(acc.vY, FMul(fv, FSub(pB.velocityY, pA.velocityY))),
     vZ |-> FAdd(acc.vZ, FMul(fv, FSub(pB.velocityZ, pA.velocityZ)))]

\* the body of the neighbour loop's if, for a neighbour at distance r
ForceWithin(s, pA, pB, d, r, hr, massRatio, acc) ==
    Accumulate(acc, PressureFactor(s, pA, pB, hr, massRatio),
               ViscosityFactor(s, pB, hr, massRatio),
               <<FDiv(d[1], r), FDiv(d[2], r), FDiv(d[3], r)>>, pA, pB)

\* one iteration of the neighbour loop, for b at offset d, squared distance r2
\* and distance r from a
ForceAt(s, pA, pB, d, r2, r, acc) ==
    IF ForceCounts(s, r, r2)
    THEN ForceWithin(s, pA, pB, d, r, FSub(s.smoothingRadius, r),
                     FDiv(pB.mass, pA.mass), acc)
    ELSE acc

ForceAlong(s, pA, pB, d, r2, acc) == ForceAt(s, pA, pB, d, r2, FSqrt(r2), acc)

ForceBetween(s, pA, pB, d, acc) == ForceAlong(s, pA, pB, d, LengthSquared(d), acc)

\* one iteration of the neighbour loop of _computeForces
ForceTerm(s, a, b, acc) ==
    ForceBetween(s, s.particles[a], s.particles[b], Diff(s.positions, a, b), acc)

RECURSIVE ForceLoop(_, _, _, _)
ForceLoop(s, a, queryIds, acc) ==
    IF queryIds = <<>> THEN acc
    ELSE ForceLoop(s, a, Tail(queryIds), ForceTerm(s, a, Head(queryIds), acc))

\* pressureAccel and viscosityAccel of particle a after its neighbour loop
NeighbourAccel(s, a) ==
    ForceLoop(s, a, HashQuery(s.hash, s.positions, a, s.smoothingRadius), ZeroAccel)

\* pressureAccel + viscosityAccel + gravity, per axis
TotalAccel(f, g) ==
    <<FAdd(FAdd(f.pX, f.vX), g[1]), FAdd(FAdd(f.pY, f.vY), g[2]),
      FAdd(FAdd(f.pZ, f.vZ), g[3])>>

\* old + new, per axis
AddAccel(old, new) == <<FAdd(old[1], new[1]), FAdd(old[2], new[2]), FAdd(old[3], new[3])>>

\* faulty variant: the new acceleration is added to the stored one
AccelOfAccumulated(s, a, old) ==
    AddAccel(old, TotalAccel(NeighbourAccel(s, a), s.gravity))

\* accelX, accelY, accelZ written for particle a (old is the value stored before)
AccelOf(s, a, old) == TotalAccel(NeighbourAccel(s, a), s.gravity)

StoredAccel(pA) == <<pA.accelX, pA.accelY, pA.accelZ>>

WithAccel(pA, acc) == [pA EXCEPT !.accelX = acc[1], !.accelY = acc[2], !.accelZ = acc[3]]

\* _computeForces: the particles after the pass
ComputeForces(s) ==
    [a \in DOMAIN s.particles |->
        IF a < s.currentNumParticles
        THEN WithAccel(s.particles[a], AccelOf(s, a, StoredAccel(s.particles[a])))
        ELSE s.particles[a]]

\* -------------------------------------------------- integration and bounds
elastic == Lit(4, 10)

fx == Lit(25, 100)

fz == Lit(65, 100)

floorY == FNeg(Lit(3, 10))

\* faulty variant: the velocity is inverted without damping
ReflectLowUndamped(on, bound, p, v) ==
    IF on /\ FLt(p, bound)
    THEN [p |-> FAdd(p, FMul(FSub(bound, p), FAdd(FromInt(1), elastic))),
          v |-> FNeg(v)]
    ELSE [p |-> p, v |-> v]

\* faulty variant: the overshoot is scaled by elastic instead of 1 + elastic
ReflectLowShort(on, bound, p, v) ==
    IF on /\ FLt(p, bound)
    THEN [p |-> FAdd(p, FMul(FSub(bound, p), elastic)),
          v |-> FMul(v, FNeg(elastic))]
    ELSE [p |-> p, v |-> v]

\* [p, v] after the lower-bound test of one axis
ReflectLow(on, bound, p, v) ==
    IF on /\ FLt(p, bound)
    THEN [p |-> FAdd(p, FMul(FSub(bound, p), FAdd(FromInt(1), elastic))),
          v |-> FMul(v, FNeg(elastic))]
    ELSE [p |-> p, v |-> v]

\* faulty variant: the upper-bound comparison is inverted
ReflectHighInverted(on, bound, p, v) ==
    IF on /\ FLt(p, bound)
    THEN [p |-> FSub(p, FMul(FSub(p, bound), FAdd(FromInt(1), elastic))),
          v |-> FMul(v, FNeg(elastic))]
    ELSE [p |-> p, v |-> v]

\* [p, v] after the upper-bound test of one axis
ReflectHigh(on, bound, p, v) ==
    IF on /\ FGt(p, bound)
    THEN [p |-> FSub(p, FMul(FSub(p, bound), FAdd(FromInt(1), elastic))),
          v |-> FMul(v, FNeg(elastic))]
    ELSE [p |-> p, v |-> v]

\* velocity += accel * deltaTime
IntegrateVelocity(v, accel, dt) == FAdd(v, FMul(accel, dt))

\* position += deltaTime * velocity
IntegratePosition(p, v, dt) == FAdd(p, FMul(dt, v))

\* [p, v] of one horizontal axis after both bound tests, from [p, v] low after
\* the lower one
ReflectBoth(on, bound, low) == ReflectHigh(on, bound, low.p, low.v)

\* [p, v] of one horizontal axis after integration and bound tests
MoveAxis(on, bound, p, v, dt) ==
    ReflectBoth(on, bound, ReflectLow(on, FNeg(bound), IntegratePosition(p, v, dt), v))

\* [p, v] of the vertical axis after integration and the floor test
MoveVertical(p, v, dt) == ReflectLow(TRUE, floorY, IntegratePosition(p, v, dt), v)

Moved(x, y, z) == [x |-> x.p, y |-> y.p, z |-> z.p, vX |-> x.v, vY |-> y.v, vZ |-> z.v]

\* one iteration of the loop of _updatePositions: a's velocity and position
MoveParticle(s, a, dt) ==
    LET pA == s.particles[a]
    IN  Moved(MoveAxis(s.checkXZBounds, fx, s.positions[3 * a + 0],
                       IntegrateVelocity(pA.velocityX, pA.accelX, dt), dt),
              MoveVertical(s.positions[3 * a + 1],
                           IntegrateVelocity(pA.velocityY, pA.accelY, dt), dt),
              MoveAxis(s.checkXZBounds, fz, s.positions[3 * a + 2],
                       IntegrateVelocity(pA.velocityZ, pA.accelZ, dt), dt))

\* the particles and the position buffer holding the moved values m
Store(s, m) ==
    [particles |->
        [a \in DOMAIN s.particles |->
            IF a < s.currentNumParticles
            THEN [s.particles[a] EXCEPT !.velocityX = m[a].vX,
                                        !.velocityY = m[a].vY,
                                        !.velocityZ = m[a].vZ]
            ELSE s.particles[a]],
     positions |->
        [j \in DOMAIN s.positions |->
            IF j \div 3 < s.currentNumParticles
            THEN IF j % 3 = 0 THEN m[j \div 3].x
                 ELSE IF j % 3 = 1 THEN m[j \div 3].y ELSE m[j \div 3].z
            ELSE s.positions[j]]]

\* _updatePositions: the particles and the position buffer after the pass
UpdatePositions(s, dt) ==
    Store(s, [a \in 0 .. s.currentNumParticles - 1 |-> MoveParticle(s, a, dt)])

\* ---------------------------------------------------------- kernel constants
Poly6Constant(h) == FDiv(FromInt(315), FMul(FMul(FromInt(64), Math_PI), FPow(h, 9)))

SpikyConstant(h) == FDiv(FromInt(-45), FMul(Math_PI, FPow(h, 6)))

ViscConstant(h) == FDiv(FromInt(45), FMul(Math_PI, FPow(h, 6)))

\* faulty variant: the kernel constants are recomputed but the grid is kept
ComputeConstantsKeepsHash(h) ==
    /\ smoothingRadius2' = FMul(h, h)
    /\ poly6Constant' = Poly6Constant(h)
    /\ spikyConstant' = SpikyConstant(h)
    /\ viscConstant' = ViscConstant(h)
    /\ hash' = hash

\* _computeConstants, for the radius just stored
ComputeConstants(h) ==
    /\ smoothingRadius2' = FMul(h, h)
    /\ poly6Constant' = Poly6Constant(h)
    /\ spikyConstant' = SpikyConstant(h)
    /\ viscConstant' = ViscConstant(h)
    /\ hash' = NewHash(h, numMaxParticles)

\* ------------------------------------------------------------ construction
Vec(x, y, z) == <<x, y, z>>

DefaultRadius == Lit(2, 10)

DefaultDensityReference == FromInt(2000)

DefaultPressureConstant == FromInt(20)

DefaultViscosity == Lit(2, 100)

DefaultGravity == Vec(Zero, FNeg(Lit(98, 10)), Zero)

\* the particle arrays and position buffers the constructor is given:
\* [count: number of particles, base: position of particle 0, step: offset from
\*  a particle to the next, vY: vertical speed (alternating in sign),
\*  massStep: mass difference from a particle to the next]
Scenarios ==
    { [count |-> MaxParticles, base |-> Vec(Zero, Zero, Zero),
       step |-> Vec(Lit(1, 10), Zero, Zero), vY |-> Zero, massStep |-> 0],
      [count |-> MaxParticles, base |-> Vec(Zero, FNeg(Lit(5, 10)), Zero),
       step |-> Vec(Lit(5, 10), Zero, Lit(9, 10)), vY |-> FromInt(-1), massStep |-> 0],
      [count |-> MaxParticles, base |-> Vec(Zero, Zero, Zero),
       step |-> Vec(Zero, Zero, Zero), vY |-> FromInt(-1), massStep |-> 1],
      [count |-> 1, base |-> Vec(Lit(1, 10), Zero, Lit(1, 10)),
       step |-> Vec(Zero, Zero, Zero), vY |-> Zero, massStep |-> 0],
      [count |-> 1, base |-> Vec(FNeg(Lit(3, 10)), FNeg(Lit(5, 10)), FNeg(Lit(7, 10))),
       step |-> Vec(Zero, Zero, Zero), vY |-> Zero, massStep |-> 0] }

Particle(i, vY, massStep) ==
    [mass |-> FromInt(1 + i * massStep), density |-> Zero, pressure |-> Zero,
     accelX |-> Zero, accelY |-> Zero, accelZ |-> Zero,
     velocityX |-> Zero, velocityY |-> IF i % 2 = 0 THEN vY ELSE FNeg(vY),
     velocityZ |-> Zero]

PositionBuffer(n, base, step) ==
    [j \in 0 .. 3 * n - 1 |->
        FAdd(base[(j % 3) + 1], FMul(FromInt(j \div 3), step[(j % 3) + 1]))]

Init ==
    /\ \E sc \in Scenarios :
          /\ numMaxParticles = sc.count
          /\ particles = [i \in 0 .. numMaxParticles - 1 |-> Particle(i, sc.vY, sc.massStep)]
          /\ positions = PositionBuffer(numMaxParticles, sc.base, sc.step)
    /\ vbPositions = positions
    /\ smoothingRadius = DefaultRadius
    /\ smoothingRadius2 = FMul(DefaultRadius, DefaultRadius)
    /\ poly6Constant = Poly6Constant(DefaultRadius)
    /\ spikyConstant = SpikyConstant(DefaultRadius)
    /\ viscConstant = ViscConstant(DefaultRadius)
    /\ hash = NewHash(DefaultRadius, numMaxParticles)
    /\ densityReference = DefaultDensityReference
    /\ pressureConstant = DefaultPressureConstant
    /\ viscosity = DefaultViscosity
    /\ gravity = DefaultGravity
    /\ checkXZBounds = TRUE
    /\ currentNumParticles = numMaxParticles
    /\ pc = 0
    /\ deltaTime = Zero
    /\ log = <<>>
    /\ ticks = 0
    /\ mutations = 0
    /\ dirty = {}

\* ------------------------------------------------------ parameter mutators
RadiusChoices == {Lit(1, 10)}

DensityReferenceChoices == {FromInt(100), FromInt(3000)}

PressureConstantChoices == {FromInt(-20)}

GravityChoices == {Vec(Zero, Zero, Zero)}

\* values assigned to currentNumParticles: none, all but the last, all
CountChoices == {0, numMaxParticles - 1, numMaxParticles}

DtChoices == {Lit(1, 10), Zero, FNeg(Lit(1, 10))}

Mutable == pc = 0 /\ mutations < MaxMutations

\* set smoothingRadius(radius)
SetSmoothingRadius ==
    /\ Mutable
    /\ \E radius \in RadiusChoices \ {smoothingRadius} :
          /\ smoothingRadius' = radius
          /\ ComputeConstants(radius)
    /\ mutations' = mutations + 1
    /\ dirty' = dirty \cup {"smoothingRadius"}
    /\ UNCHANGED <<particles, numMaxParticles, positions, vbPositions, densityReference,
                   pressureConstant, viscosity, gravity, checkXZBounds,
                   currentNumParticles, pc, deltaTime, log, ticks>>

SetDensityReference ==
    /\ Mutable
    /\ \E v \in DensityReferenceChoices \ {densityReference} : densityReference' = v
    /\ mutations' = mutations + 1
    /\ dirty' = dirty \cup {"densityReference"}
    /\ UNCHANGED <<particles, numMaxParticles, positions, vbPositions, hash,
                   smoothingRadius, smoothingRadius2, poly6Constant, spikyConstant,
                   viscConstant, pressureConstant, viscosity, gravity, checkXZBounds,
                   currentNumParticles, pc, deltaTime, log, ticks>>

SetPressureConstant ==
    /\ Mutable
    /\ \E v \in PressureConstantChoices \ {pressureConstant} : pressureConstant' = v
    /\ mutations' = mutations + 1
    /\ dirty' = dirty \cup {"pressureConstant"}
    /\ UNCHANGED <<particles, numMaxParticles, positions, vbPositions, hash,
                   smoothingRadius, smoothingRadius2, poly6Constant, spikyConstant,
                   viscConstant, densityReference, viscosity, gravity, checkXZBounds,
                   currentNumParticles, pc, deltaTime, log, ticks>>

SetGravity ==
    /\ Mutable
    /\ \E g \in GravityChoices \ {gravity} : gravity' = g
    /\ mutations' = mutations + 1
    /\ dirty' = dirty \cup {"gravity"}
    /\ UNCHANGED <<particles, numMaxParticles, positions, vbPositions, hash,
                   smoothingRadius, smoothingRadius2, poly6Constant, spikyConstant,
                   viscConstant, densityReference, pressureConstant, viscosity,
                   checkXZBounds, currentNumParticles, pc, deltaTime, log, ticks>>

SetCheckXZBounds ==
    /\ Mutable
    /\ checkXZBounds' = ~checkXZBounds
    /\ mutations' = mutations + 1
    /\ dirty' = dirty \cup {"checkXZBounds"}
    /\ UNCHANGED <<particles, numMaxParticles, positions, vbPositions, hash,
                   smoothingRadius, smoothingRadius2, poly6Constant, spikyConstant,
                   viscConstant, densityReference, pressureConstant, viscosity, gravity,
                   currentNumParticles, pc, deltaTime, log, ticks>>

SetCurrentNumParticles ==
    /\ Mutable
    /\ \E n \in CountChoices \ {currentNumParticles} : currentNumParticles' = n
    /\ mutations' = mutations + 1
    /\ dirty' = dirty \cup {"currentNumParticles"}
    /\ UNCHANGED <<particles, numMaxParticles, positions, vbPositions, hash,
                   smoothingRadius, smoothingRadius2, poly6Constant, spikyConstant,
                   viscConstant, densityReference, pressureConstant, viscosity, gravity,
                   checkXZBounds, pc, deltaTime, log, ticks>>

\* ------------------------------------------------------------------ update
\* faulty variant: the force pass is called before the density pass
UpdateSequenceForcesFirst == <<"create", "forces", "density", "positions", "publish">>

\* the statements of update(deltaTime), in program order
UpdateSequence == <<"create", "density", "forces", "positions", "publish">>

AtStatement(name) == pc \in 1 .. Len(UpdateSequence) /\ UpdateSequence[pc] = name

\* control after one statement of update: the next statement, or return
Advance(name) ==
    /\ log' = Append(log, name)
    /\ pc' = IF pc = Len(UpdateSequence) THEN 0 ELSE pc + 1
    /\ ticks' = IF pc = Len(UpdateSequence) THEN ticks + 1 ELSE ticks
    /\ UNCHANGED <<deltaTime, mutations, dirty>>

\* a call of update(dt)
Update ==
    /\ pc = 0
    /\ ticks < MaxTicks
    /\ \E dt \in DtChoices : deltaTime' = dt
    /\ pc' = 1
    /\ log' = <<>>
    /\ dirty' = {}
    /\ UNCHANGED <<particles, numMaxParticles, positions, vbPositions, hash,
                   smoothingRadius, smoothingRadius2, poly6Constant, spikyConstant,
                   viscConstant, densityReference, pressureConstant, viscosity, gravity,
                   checkXZBounds, currentNumParticles, ticks, mutations>>

\* this._hash.create(this._positions, this.currentNumParticles)
CreateStep ==
    /\ AtStatement("create")
    /\ hash' = HashCreate(hash, positions, currentNumParticles)
    /\ Advance("create")
    /\ UNCHANGED <<particles, numMaxParticles, positions, vbPositions, smoothingRadius,
                   smoothingRadius2, poly6Constant, spikyConstant, viscConstant,
                   densityReference, pressureConstant, viscosity, gravity, checkXZBounds,
                   currentNumParticles>>

\* this._computeDensity()
DensityStep ==
    /\ AtStatement("density")
    /\ particles' = ComputeDensity(Sim)
    /\ Advance("density")
    /\ UNCHANGED <<numMaxParticles, positions, vbPositions, hash, smoothingRadius,
                   smoothingRadius2, poly6Constant, spikyConstant, viscConstant,
                   densityReference, pressureConstant, viscosity, gravity, checkXZBounds,
                   currentNumParticles>>

\* this._computeForces()
ForcesStep ==
    /\ AtStatement("forces")
    /\ particles' = ComputeForces(Sim)
    /\ Advance("forces")
    /\ UNCHANGED <<numMaxParticles, positions, vbPositions, hash, smoothingRadius,
                   smoothingRadius2, poly6Constant, spikyConstant, viscConstant,
                   densityReference, pressureConstant, viscosity, gravity, checkXZBounds,
                   currentNumParticles>>

Landed(r) == particles' = r.particles /\ positions' = r.positions

\* this._updatePositions(deltaTime)
PositionsStep ==
    /\ AtStatement("positions")
    /\ Landed(UpdatePositions(Sim, deltaTime))
    /\ Advance("positions")
    /\ UNCHANGED <<numMaxParticles, vbPositions, hash, smoothingRadius,
                   smoothingRadius2, poly6Constant, spikyConstant, viscConstant,
                   densityReference, pressureConstant, viscosity, gravity, checkXZBounds,
                   currentNumParticles>>

\* this._vbPositions.updateDirectly(this._positions, 0)
PublishStep ==
    /\ AtStatement("publish")
    /\ vbPositions' = positions
    /\ Advance("publish")
    /\ UNCHANGED <<particles, numMaxParticles, positions, hash, smoothingRadius,
                   smoothingRadius2, poly6Constant, spikyConstant, viscConstant,
                   densityReference, pressureConstant, viscosity, gravity, checkXZBounds,
                   currentNumParticles>>

Next ==
    \/ SetSmoothingRadius
    \/ SetDensityReference
    \/ SetPressureConstant
    \/ SetGravity
    \/ SetCheckXZBounds
    \/ SetCurrentNumParticles
    \/ Update
    \/ CreateStep
    \/ DensityStep
    \/ ForcesStep
    \/ PositionsStep
    \/ PublishStep

Spec == Init /\ [][Next]_vars

\* ================================================================== claims
ActiveIds == 0 .. currentNumParticles - 1

\* update has returned at least once and no update is running
Done == pc = 0 /\ ticks > 0

\* none of the named parameters was assigned since the last call of update
Clean(names) == dirty \cap names = {}

PosX(a) == positions[3 * a + 0]

PosY(a) == positions[3 * a + 1]

PosZ(a) == positions[3 * a + 2]

\* ---------------------------------------------------------------------- C1
\* C1 as stated: whenever update has returned, every active particle's density
\* is at least the densityReference currently configured, whatever was assigned
\* since.
C1_DensityFloorAlways ==
    Done => \A a \in ActiveIds : FGe(particles[a].density, densityReference)

\* C1 amended: after a completed update, every particle with index below
\* currentNumParticles has density >= densityReference, as long as neither
\* densityReference nor currentNumParticles was assigned since that update.
C1_DensityFloorAfterUpdate ==
    (Done /\ Clean({"densityReference", "currentNumParticles"}))
        => \A a \in ActiveIds : FGe(particles[a].density, densityReference)

\* an update ran under a reassigned reference and the clamp set a density to it
C1_Witness ==
    /\ Done
    /\ Clean({"densityReference", "currentNumParticles"})
    /\ densityReference = FromInt(3000)
    /\ \E a \in ActiveIds : particles[a].density = densityReference

\* ---------------------------------------------------------------------- C2
\* C2 as stated: whenever update has returned, every active particle's pressure
\* is >= 0 and equals pressureConstant * (density - densityReference) for the
\* parameters currently configured.
C2_PressureAlways ==
    Done => \A a \in ActiveIds :
        /\ FGe(particles[a].pressure, Zero)
        /\ particles[a].pressure =
              FMul(pressureConstant, FSub(particles[a].density, densityReference))

\* C2 amended: after a completed update, while pressureConstant, densityReference
\* and currentNumParticles are not assigned again, every active particle's
\* pressure equals pressureConstant * (density - densityReference), and it is
\* >= 0 whenever pressureConstant >= 0.
C2_PressureAfterUpdate ==
    (Done /\ Clean({"pressureConstant", "densityReference", "currentNumParticles"}))
        => \A a \in ActiveIds :
              /\ particles[a].pressure =
                    FMul(pressureConstant, FSub(particles[a].density, densityReference))
              /\ FGe(pressureConstant, Zero) => FGe(particles[a].pressure, Zero)

\* an update left a particle above the reference density, with positive pressure
C2_Witness ==
    /\ Done
    /\ Clean({"pressureConstant", "densityReference", "currentNumParticles"})
    /\ \E a \in ActiveIds :
          /\ FGt(particles[a].density, densityReference)
          /\ FGt(particles[a].pressure, Zero)

\* ---------------------------------------------------------------------- C3
ExpectedOrder == <<"create", "density", "forces", "positions", "publish">>

\* C3: within a call of update the statements run so far are a prefix of grid
\* rebuild, density pass, force pass, integration, publication, one statement
\* per step, and a returned call has run all five exactly once in that order.
C3_PhaseOrder ==
    /\ Len(log) <= Len(ExpectedOrder)
    /\ log = SubSeq(ExpectedOrder, 1, Len(log))
    /\ pc > 0 => Len(log) = pc - 1
    /\ Done => log = ExpectedOrder

\* the second call of update has returned
C3_Witness == pc = 0 /\ ticks = 2 /\ log = ExpectedOrder

\* ---------------------------------------------------------------------- C4
StartY == FNeg(Lit(5, 10))

\* C4 as stated: a particle at y = -0.5 moving down has, after the integration
\* of one update, y >= -0.3 and velocity.y = -0.4 * its velocity.y before.
C4_ReflectsPreStepVelocity ==
    [][PositionsStep =>
        \A a \in ActiveIds :
            (PosY(a) = StartY /\ FLt(particles[a].velocityY, Zero))
                => /\ FGe(positions'[3 * a + 1], FNeg(Lit(3, 10)))
                   /\ particles'[a].velocityY =
                         FMul(particles[a].velocityY, FNeg(Lit(4, 10)))]_vars

\* C4 amended: a particle at y = -0.5 moving down has y >= -0.3 after one
\* update(dt); and when dt >= 0 and the integrated velocity
\* v = velocity.y + accelY * dt is still <= 0, its velocity.y afterwards is
\* -0.4 * v (not -0.4 * the velocity before the step), which is >= 0.
C4_ReflectsIntegratedVelocity ==
    [][PositionsStep =>
        \A a \in ActiveIds :
            (PosY(a) = StartY /\ FLt(particles[a].velocityY, Zero))
                => LET v == FAdd(particles[a].velocityY,
                                 FMul(particles[a].accelY, deltaTime))
                   IN  /\ FGe(positions'[3 * a + 1], FNeg(Lit(3, 10)))
                       /\ (FGe(deltaTime, Zero) /\ FGe(Zero, v))
                             => /\ particles'[a].velocityY = FMul(v, FNeg(Lit(4, 10)))
                                /\ FGe(particles'[a].velocityY, Zero)]_vars

\* the first integration with dt = 0.1 reflected particle 0, which started at
\* y = -0.5 with velocity.y = -1 under gravity -9.8
C4_Witness ==
    /\ ticks = 0
    /\ log = <<"create", "density", "forces", "positions">>
    /\ deltaTime = Lit(1, 10)
    /\ gravity = DefaultGravity
    /\ currentNumParticles > 0
    /\ particles[0].accelY = FNeg(Lit(98, 10))
    /\ particles[0].velocityY =
          FMul(FAdd(FromInt(-1), FMul(particles[0].accelY, deltaTime)), FNeg(Lit(4, 10)))
    /\ FGt(particles[0].velocityY, Lit(4, 10))
    /\ FGe(PosY(0), FNeg(Lit(3, 10)))
    /\ FLt(PosY(0), Zero)

\* ---------------------------------------------------------------------- C5
AtRest(a) ==
    /\ particles[a].velocityX = Zero
    /\ particles[a].velocityY = Zero
    /\ particles[a].velocityZ = Zero

SingleAtRest ==
    /\ currentNumParticles = 1
    /\ AtRest(0)
    /\ gravity = Vec(Zero, Zero, Zero)
    /\ particles[0].density = densityReference

StaysPut ==
    /\ positions'[0] = positions[0]
    /\ positions'[1] = positions[1]
    /\ positions'[2] = positions[2]
    /\ particles'[0].velocityX = Zero
    /\ particles'[0].velocityY = Zero
    /\ particles'[0].velocityZ = Zero

\* inside the bounds _updatePositions enforces
InsideBounds(a) ==
    /\ FGe(PosY(a), FNeg(Lit(3, 10)))
    /\ checkXZBounds =>
          /\ FGe(PosX(a), FNeg(Lit(25, 100))) /\ FGe(Lit(25, 100), PosX(a))
          /\ FGe(PosZ(a), FNeg(Lit(65, 100))) /\ FGe(Lit(65, 100), PosZ(a))

\* C5 as stated: a single particle at rest with gravity (0,0,0) and density at
\* the reference keeps its position and zero velocity through every update,
\* wherever it is.
C5_RestAnywhere ==
    [][PositionsStep => (SingleAtRest => StaysPut)]_vars

\* C5 amended: a single particle at rest with gravity (0,0,0) and density at
\* the reference keeps its position and zero velocity through every update,
\* for every dt, provided its position is inside the enforced bounds
\* (y >= -0.3 and, with checkXZBounds set, |x| <= 0.25 and |z| <= 0.65).
C5_RestInsideBounds ==
    [][PositionsStep => ((SingleAtRest /\ InsideBounds(0)) => StaysPut)]_vars

\* two updates with gravity off left the single particle of the fourth
\* scenario where it was built, at rest
C5_Witness ==
    /\ pc = 0
    /\ ticks = 2
    /\ deltaTime # Zero
    /\ currentNumParticles = 1
    /\ gravity = Vec(Zero, Zero, Zero)
    /\ AtRest(0)
    /\ particles[0].density = densityReference
    /\ PosX(0) = Lit(1, 10) /\ PosY(0) = Zero /\ PosZ(0) = Lit(1, 10)

\* ---------------------------------------------------------------------- C6
\* a and b are distinct active particles of equal mass at distance 0 < r < h
ForcePair(a, b) ==
    /\ a # b
    /\ particles[a].mass = particles[b].mass
    /\ LET r2 == Dist2(positions, a, b)
       IN  FGt(FSqrt(r2), Zero) /\ FLt(r2, smoothingRadius2)

\* C6: in the force pass, the pressure-gradient acceleration particle b gives a
\* is the negative, component by component, of the one a gives b, for every
\* pair of equal mass at distance 0 < r < smoothingRadius, whatever their
\* densities and pressures; when the two are the only active particles, so are
\* their whole pressure-gradient accelerations.
C6_PairSymmetry ==
    AtStatement("forces") =>
        \A a \in ActiveIds : \A b \in ActiveIds :
            (a < b /\ ForcePair(a, b)) =>
                LET fa == ForceTerm(Sim, a, b, ZeroAccel)
                    fb == ForceTerm(Sim, b, a, ZeroAccel)
                IN  /\ fa.pX = FNeg(fb.pX)
                    /\ fa.pY = FNeg(fb.pY)
                    /\ fa.pZ = FNeg(fb.pZ)
                    /\ currentNumParticles = 2 =>
                          LET ta == NeighbourAccel(Sim, a)
                              tb == NeighbourAccel(Sim, b)
                          IN  /\ ta.pX = FNeg(tb.pX)
                              /\ ta.pY = FNeg(tb.pY)
                              /\ ta.pZ = FNeg(tb.pZ)

\* a force pass is about to run on a pair of equal mass and different
\* densities that repel each other
C6_Witness ==
    /\ AtStatement("forces")
    /\ \E a \in ActiveIds : \E b \in ActiveIds :
          /\ ForcePair(a, b)
          /\ particles[a].density # particles[b].density
          /\ FGt(particles[a].pressure, Zero)
          /\ ForceTerm(Sim, a, b, ZeroAccel).pX # Zero

\* ---------------------------------------------------------------------- C7
\* no other binned particle lies within the smoothing radius of a
Isolated(a) ==
    \A b \in ActiveIds : b # a => ~FLt(Dist2(positions, a, b), smoothingRadius2)

\* every other binned particle is at r = 0 or at r >= h from a
NoForceNeighbour(a) ==
    \A b \in ActiveIds :
        b # a => LET r2 == Dist2(positions, a, b)
                 IN  ~(FGt(FSqrt(r2), Zero) /\ FLt(r2, smoothingRadius2))

AccelIsGravity(a) ==
    /\ particles[a].accelX = gravity[1]
    /\ particles[a].accelY = gravity[2]
    /\ particles[a].accelZ = gravity[3]

\* C7: after the density and force passes, an isolated particle has density
\* max(densityReference, C_poly6 * (h^2)^3), its own r = 0 term, and an
\* acceleration equal to gravity; and so has the acceleration of every particle
\* whose only candidates within the radius are at r = 0.
C7_IsolatedParticle ==
    (pc > 0 /\ log = <<"create", "density", "forces">>) =>
        \A a \in ActiveIds :
            /\ Isolated(a) =>
                  /\ particles[a].density =
                        FMax(densityReference,
                             FMul(poly6Constant, FPow(smoothingRadius2, 3)))
                  /\ AccelIsGravity(a)
            /\ NoForceNeighbour(a) => AccelIsGravity(a)

\* the passes ran on an isolated particle, among others, whose own term
\* exceeds the reference density
C7_Witness ==
    /\ pc > 0
    /\ log = <<"create", "density", "forces">>
    /\ currentNumParticles > 1
    /\ \E a \in ActiveIds :
          /\ Isolated(a)
          /\ FGt(particles[a].density, densityReference)
          /\ particles[a].accelY = gravity[2]

\* ---------------------------------------------------------------------- C8
\* C8: in every state the squared radius, the poly6, spiky and viscosity
\* constants and the grid's cell size are those derived from the current
\* smoothingRadius h: h*h, 315/(64*pi*h^9), -45/(pi*h^6), 45/(pi*h^6), h.
C8_NoStaleConstants ==
    LET h == smoothingRadius
    IN  /\ smoothingRadius2 = FMul(h, h)
        /\ poly6Constant =
              FDiv(FromInt(315), FMul(FMul(FromInt(64), Math_PI), FPow(h, 9)))
        /\ spikyConstant = FDiv(FromInt(-45), FMul(Math_PI, FPow(h, 6)))
        /\ viscConstant = FDiv(FromInt(45), FMul(Math_PI, FPow(h, 6)))
        /\ hash.spacing = h

\* an update has run after the radius was changed from its default
C8_Witness ==
    /\ Done
    /\ Clean({"smoothingRadius"})
    /\ smoothingRadius # DefaultRadius
    /\ hash.numObjects > 0

\* ---------------------------------------------------------------------- C9
AccelAlternatives == {FNeg(Lit(7, 2))}

\* the simulator with the acceleration fields of every active particle set to v
SimWithAccel(v) ==
    [Sim EXCEPT !.particles =
        [a \in DOMAIN particles |->
            IF a \in ActiveIds
            THEN [particles[a] EXCEPT !.accelX = v, !.accelY = v, !.accelZ = v]
            ELSE particles[a]]]

\* C9: the force pass of every update leaves the particles it would leave
\* had the stored accelerations of the active particles been any other
\* values: the accelerations after an update (and the velocities and positions
\* integrated from them) do not depend on those of the previous update.
C9_AccelNotAccumulated ==
    [][(AtStatement("forces") /\ pc' # pc) =>
        \A v \in AccelAlternatives :
            particles' = ComputeForces(SimWithAccel(v))]_vars

\* the force pass of a later update is about to run on particles that carry
\* the accelerations of the previous one
C9_Witness ==
    /\ AtStatement("forces")
    /\ ticks > 0
    /\ deltaTime # Zero
    /\ \E a \in ActiveIds : particles[a].accelY # Zero /\ particles[a].accelX # Zero

\* --------------------------------------------------------------------- C10
\* C10: after every completed update, for every dt and either value of
\* checkXZBounds, every particle with index below currentNumParticles has
\* y >= -0.3.
C10_FloorEnforced ==
    (Done /\ Clean({"currentNumParticles"}))
        => \A a \in ActiveIds : FGe(PosY(a), FNeg(Lit(3, 10)))

\* an update with negative dt and the horizontal bounds off reflected a
\* particle off the floor
C10_Witness ==
    /\ Done
    /\ Clean({"currentNumParticles", "checkXZBounds"})
    /\ ~checkXZBounds
    /\ FLt(deltaTime, Zero)
    /\ \E a \in ActiveIds :
          /\ FGt(particles[a].velocityY, Zero)
          /\ FGe(PosY(a), FNeg(Lit(3, 10)))
          /\ FLt(PosY(a), FNeg(Lit(2, 10)))

====
